---------------------------- MODULE Spec2Model ----------------------------
(***************************************************************************)
(* A model of the news-alert scheduler: the weekly feed pipeline           *)
(* (fetchAndScheduleAlerts), the alert registry (scheduledAlerts), the     *)
(* monthly pattern generator (generateMonthlySchedule) and the monthly     *)
(* registry (activeCronTasks).                                             *)
(*                                                                         *)
(* Instants are whole minutes since 1970-01-01T00:00Z (the code's Date     *)
(* values are milliseconds; every instant the program computes with is a   *)
(* whole minute).  A named timezone is its UTC offset in minutes; the only *)
(* zone the code names, Asia/Ho_Chi_Minh, has a fixed offset.              *)
(* Intl.DateTimeFormat is taken to render hours 0..23.                     *)
(***************************************************************************)
EXTENDS Integers, Sequences, FiniteSets, TLC

\* "const v = e; Body(v)": e is evaluated once and Body is applied to its value
Bind(e, Body(_)) == CHOOSE r \in { Body(v) : v \in {e} } : TRUE

(***************************************************************************)
(* Calendar arithmetic: what new Date(...) and Intl.DateTimeFormat compute *)
(***************************************************************************)

\* days since 1970-01-01 of the proleptic Gregorian date y-m-d
DaysFromCivil(y, m, d) ==
    Bind(IF m <= 2 THEN y - 1 ELSE y, LAMBDA yy :
    Bind(yy \div 400, LAMBDA era :
    Bind(yy - era * 400, LAMBDA yoe :
        LET mp  == IF m > 2 THEN m - 3 ELSE m + 9
            doy == (153 * mp + 2) \div 5 + d - 1
            doe == yoe * 365 + yoe \div 4 - yoe \div 100 + doy
        IN  era * 146097 + doe - 719468)))

\* the Gregorian date of a day number
CivilFromDays(days) ==
    Bind(days + 719468, LAMBDA z :
    Bind(z \div 146097, LAMBDA era :
    Bind(z - era * 146097, LAMBDA doe :
    Bind((doe - doe \div 1460 + doe \div 36524 - doe \div 146096) \div 365, LAMBDA yoe :
    Bind(doe - (365 * yoe + yoe \div 4 - yoe \div 100), LAMBDA doy :
    Bind((5 * doy + 2) \div 153, LAMBDA mp :
    Bind(IF mp < 10 THEN mp + 3 ELSE mp - 9, LAMBDA m :
        [year  |-> yoe + era * 400 + (IF m <= 2 THEN 1 ELSE 0),
         month |-> m,
         day   |-> doy - (153 * mp + 2) \div 5 + 1])))))))

\* the instant of the wall-clock time y-mo-d h:mi read at UTC offset off
InstantOf(y, mo, d, h, mi, off) ==
    DaysFromCivil(y, mo, d) * 1440 + h * 60 + mi - off

\* the calendar fields of instant t observed at UTC offset off
\* (month is 1..12 as Intl renders it; weekday 0 is Sunday)
PartsOf(t, off) ==
    Bind(t + off, LAMBDA loc :
    Bind(CivilFromDays(loc \div 1440), LAMBDA c :
        [year |-> c.year, month |-> c.month, day |-> c.day,
         hour |-> (loc % 1440) \div 60, minute |-> loc % 60,
         weekday |-> (loc \div 1440 + 4) % 7]))

VARIABLES
    now,              \* the current instant
    hostOffset,       \* UTC offset of the host process's local timezone
    config,           \* config.scheduler: startTime, timezone
    gen,              \* a call of generateMonthlySchedule run step by step (its locals)
    mainPc,           \* where main() is: "start", "awaiting" (the initial run), "done"
    runs,             \* per caller, the call of fetchAndScheduleAlerts in flight
    nextRun,          \* how many calls of fetchAndScheduleAlerts were started, plus one
    outcome,          \* per caller, how its last call of fetchAndScheduleAlerts ended
    tasks,            \* every node-cron task created so far, by creation order
    scheduledAlerts,  \* dailyAlert.cron.js: the alert registry (indices into tasks)
    activeCronTasks,  \* monthlyCronRegistrar.service.js: the monthly registry
    cronLast,         \* the last minute at which the weekly / monthly cron ran (or was created)
    monthlyOutcome,   \* how the last call of runMonthlyScheduler ended
    lastDelivery      \* how the last delivery attempted by a trigger callback ended

sysVars == <<mainPc, runs, nextRun, outcome, tasks, scheduledAlerts, activeCronTasks,
             cronLast, monthlyOutcome, lastDelivery>>

vars == <<now, hostOffset, config, gen, mainPc, runs, nextRun, outcome, tasks,
          scheduledAlerts, activeCronTasks, cronLast, monthlyOutcome, lastDelivery>>

(***************************************************************************)
(* Slot generator: scheduleGenerator.service.js                            *)
(***************************************************************************)

\* the local timezone of the host: that of the scheduler, or UTC
HostOffsets == {420, 0}

\* new Date(str) of a date-time string that carries no offset: host local time
NewDateLocal(s) == InstantOf(s.year, s.month, s.day, s.hour, s.minute, hostOffset)

\* Limit loop to prevent infinite loop
MAX_CYCLES == 10000

\* Pattern intervals in hours
pattern == <<8, 8, 4>>

\* Intl year and 0-based month of a date in a timezone
YearMonthOf(date, timezone) ==
    Bind(PartsOf(date, timezone), LAMBDA p : [year |-> p.year, month |-> p.month - 1])

isDateInMonth(date, month, year, timezone) ==
    Bind(YearMonthOf(date, timezone), LAMBDA ym : ym.year = year /\ ym.month = month)

GenIdle == [pc |-> "idle"]

\* the locals with the pattern entered at its last interval
GenEnterAtLastInterval(startTime, timezone, targetDate) ==
    Bind(YearMonthOf(targetDate, timezone), LAMBDA target :
        [pc |-> "loop", timezone |-> timezone,
         targetYear |-> target.year, targetMonth |-> target.month,
         patternIndex |-> Len(pattern) - 1, currentDate |-> NewDateLocal(startTime),
         schedule |-> <<>>, cycles |-> 0])

\* the locals of generateMonthlySchedule before the loop
GenEnter(startTime, timezone, targetDate) ==
    Bind(YearMonthOf(targetDate, timezone), LAMBDA target :
        [pc |-> "loop", timezone |-> timezone,
         targetYear |-> target.year, targetMonth |-> target.month,
         patternIndex |-> 0, currentDate |-> NewDateLocal(startTime),
         schedule |-> <<>>, cycles |-> 0])

\* the clone pushed only when the same hour of the next day is in the month
GenPushBeforeLastDay(g) ==
    IF isDateInMonth(g.currentDate + 1440, g.targetMonth, g.targetYear, g.timezone)
    THEN g.schedule \o <<g.currentDate, g.currentDate + 60>>
    ELSE Append(g.schedule, g.currentDate)

\* the pushes without the check of the clone's month
GenPushUnchecked(g) == g.schedule \o <<g.currentDate, g.currentDate + 60>>

\* the body of "if explicitly in the target month": the schedule after the pushes
GenPush(g) ==
    IF isDateInMonth(g.currentDate + 60, g.targetMonth, g.targetYear, g.timezone)
    THEN g.schedule \o <<g.currentDate, g.currentDate + 60>>
    ELSE Append(g.schedule, g.currentDate)

\* the loop as while (true): left by its break only
GenStepUncapped(g) ==
    IF g.pc # "loop"
    THEN g
    ELSE Bind(YearMonthOf(g.currentDate, g.timezone), LAMBDA cur :
        IF cur.year > g.targetYear
           \/ (cur.year = g.targetYear /\ cur.month > g.targetMonth)
        THEN [g EXCEPT !.pc = "sort"]
        ELSE [g EXCEPT !.schedule = IF cur.year = g.targetYear /\ cur.month = g.targetMonth
                                    THEN GenPush(g)
                                    ELSE @,
                       !.currentDate = @ + pattern[g.patternIndex + 1] * 60,
                       !.patternIndex = (@ + 1) % Len(pattern),
                       !.cycles = @ + 1])

\* one evaluation of the while condition and, when it holds, of the loop body;
\* nothing once the loop is left
GenStep(g) ==
    IF g.pc # "loop"
    THEN g
    ELSE IF g.cycles >= MAX_CYCLES
    THEN [g EXCEPT !.pc = "sort"]
    ELSE Bind(YearMonthOf(g.currentDate, g.timezone), LAMBDA cur :
        IF cur.year > g.targetYear
           \/ (cur.year = g.targetYear /\ cur.month > g.targetMonth)
        THEN [g EXCEPT !.pc = "sort"]
        ELSE [g EXCEPT !.schedule = IF cur.year = g.targetYear /\ cur.month = g.targetMonth
                                    THEN GenPush(g)
                                    ELSE @,
                       !.currentDate = @ + pattern[g.patternIndex + 1] * 60,
                       !.patternIndex = (@ + 1) % Len(pattern),
                       !.cycles = @ + 1])

\* schedule.sort((a, b) => a - b): ascending, equal elements in their order;
\* place[i] is the index at which s[i] ends
SortAscending(s) ==
    IF \A i \in 1..(Len(s) - 1) : s[i] < s[i + 1]
    THEN s
    ELSE
    Bind(SubSeq([i \in 1..Len(s) |->
             Cardinality({ j \in 1..Len(s) : s[j] < s[i] \/ (s[j] = s[i] /\ j <= i) })],
                1, Len(s)),
         LAMBDA place :
             SubSeq([k \in 1..Len(s) |-> s[CHOOSE i \in 1..Len(s) : place[i] = k]],
                    1, Len(s)))

\* 2^k evaluations of the while condition, by halves
RECURSIVE GenSteps(_, _)
GenSteps(g, k) ==
    IF g.pc # "loop" THEN g
    ELSE IF k = 0 THEN GenStep(g)
    ELSE Bind(GenSteps(g, k - 1), LAMBDA half : GenSteps(half, k - 1))

\* the while loop: it is left at the latest at the evaluation of its condition
\* that finds cycles = MAX_CYCLES, the (MAX_CYCLES + 1)-th; 2^14 cover them
GenLoop(g) == GenSteps(g, 14)

generateMonthlySchedule(startTime, timezone, targetDate) ==
    Bind(GenEnter(startTime, timezone, targetDate), LAMBDA entered :
    Bind(GenLoop(entered), LAMBDA left :
    Bind(left.schedule, SortAscending)))

(***************************************************************************)
(* Timezone utilities and the filter                                       *)
(***************************************************************************)

\* 'Asia/Ho_Chi_Minh'
TARGET_TIMEZONE == 420

\* the date key read in UTC, as toISOString() gives it
getDateKeyUTC(date) ==
    Bind(PartsOf(date, 0), LAMBDA p : p.year * 10000 + p.month * 100 + p.day)

\* the 'YYYY-MM-DD' string of en-CA, held as the number YYYYMMDD, which
\* orders as the string does
getDateKey(date) ==
    Bind(PartsOf(date, TARGET_TIMEZONE), LAMBDA p :
        p.year * 10000 + p.month * 100 + p.day)

getCronComponents(date) ==
    Bind(PartsOf(date, TARGET_TIMEZONE), LAMBDA p :
        [hour |-> p.hour, minute |-> p.minute, day |-> p.day, month |-> p.month])

\* the time of day moved back 5 minutes, the day and month left as the event's
getEventAlertTimeSameDay(date) ==
    [getCronComponents(date - 5) EXCEPT !.day = getCronComponents(date).day,
                                        !.month = getCronComponents(date).month]

\* 5 minutes before the event
getEventAlertTime(date) == getCronComponents(date - 5)

\* the filter keeping the first occurrence only of an event
filterHighImpactUSDOnce(events) ==
    SelectSeq([i \in DOMAIN events |->
                  IF \E j \in 1..(i - 1) : events[j] = events[i]
                  THEN [impact |-> "", country |-> ""]
                  ELSE events[i]],
              LAMBDA event : event.impact = "High" /\ event.country = "USD")

\* the filter without the test of the impact
filterUSD(events) == SelectSeq(events, LAMBDA event : event.country = "USD")

filterHighImpactUSD(events) ==
    SelectSeq(events, LAMBDA event : event.impact = "High" /\ event.country = "USD")

(***************************************************************************)
(* node-cron tasks.  A heap h is [tasks, scheduledAlerts, activeCronTasks]; *)
(* the operators below return the heap a call leaves.                      *)
(***************************************************************************)

Range(s) == { s[i] : i \in DOMAIN s }

\* cron.schedule(expression, callback, options): a started task whose
\* expression is "minute hour day month *", matched in timezone zone
NewTask(kind, c, zone, run, events, slot) ==
    [kind |-> kind, minute |-> c.minute, hour |-> c.hour, day |-> c.day,
     month |-> c.month, zone |-> zone, status |-> "scheduled", fired |-> 0,
     lastFired |-> 0, created |-> now, run |-> run, events |-> events, slot |-> slot]

\* no task.stop()
StopNone(ts, ids) == ts

\* task.stop() on every task in ids
StopAll(ts, ids) ==
    [i \in DOMAIN ts |-> IF i \in ids THEN [ts[i] EXCEPT !.status = "stopped"] ELSE ts[i]]

\* whether the task's cron expression matches instant t in the task's timezone
Matches(task, t) ==
    /\ (t + task.zone) % 60 = task.minute
    /\ ((t + task.zone) % 1440) \div 60 = task.hour
    /\ Bind(PartsOf(t, task.zone), LAMBDA p : p.day = task.day /\ p.month = task.month)

(***************************************************************************)
(* dailyAlert.cron.js                                                      *)
(***************************************************************************)

\* `0 0 7 ${day} ${month} *` of the date key, in 'Asia/Ho_Chi_Minh'
scheduleDailyAlert(h, dateKey, events, run) ==
    Bind(NewTask("daily",
                 [minute |-> 0, hour |-> 7, day |-> dateKey % 100,
                  month |-> (dateKey \div 100) % 100],
                 TARGET_TIMEZONE, run, events, 0),
         LAMBDA task : [h EXCEPT !.tasks = Append(@, task),
                                 !.scheduledAlerts = Append(@, Len(h.tasks) + 1)])

\* the array emptied, its tasks left started
cancelAllAlertsNoStop(h) == [h EXCEPT !.scheduledAlerts = <<>>]

\* the tasks stopped, the array not cleared
cancelAllAlertsKeepArray(h) ==
    [h EXCEPT !.tasks = StopAll(@, Range(h.scheduledAlerts))]

cancelAllAlerts(h) ==
    [h EXCEPT !.tasks = StopAll(@, Range(h.scheduledAlerts)),
              !.scheduledAlerts = <<>>]

schedulePreEventAlert(h, event, run) ==
    Bind(NewTask("pre", getEventAlertTime(event.date), TARGET_TIMEZONE, run, <<event>>, 0),
         LAMBDA task : [h EXCEPT !.tasks = Append(@, task),
                                 !.scheduledAlerts = Append(@, Len(h.tasks) + 1)])

(***************************************************************************)
(* weeklyFetch.cron.js                                                     *)
(***************************************************************************)

\* Object.keys(eventsByDate): the date keys in order of first appearance
RECURSIVE DateKeysOf(_, _)
DateKeysOf(events, keys) ==
    IF events = <<>> THEN keys
    ELSE Bind(getDateKey(Head(events).date), LAMBDA dateKey :
             DateKeysOf(Tail(events),
                        IF dateKey \in Range(keys) THEN keys ELSE Append(keys, dateKey)))

\* the bucket built with unshift: the events of the date, last first
EventsOnLastFirst(events, dateKey) ==
    Bind(SelectSeq(events, LAMBDA event : getDateKey(event.date) = dateKey), LAMBDA on :
        SubSeq([k \in 1..Len(on) |-> on[Len(on) + 1 - k]], 1, Len(on)))

\* eventsByDate[dateKey]
EventsOn(events, dateKey) ==
    SelectSeq(events, LAMBDA event : getDateKey(event.date) = dateKey)

\* eventsByDate[dateKey].forEach(...)
RECURSIVE SchedulePreEventAlerts(_, _, _)
SchedulePreEventAlerts(h, events, run) ==
    IF events = <<>> THEN h
    ELSE Bind(schedulePreEventAlert(h, Head(events), run), LAMBDA pushed :
             SchedulePreEventAlerts(pushed, Tail(events), run))

\* dates.forEach(...)
RECURSIVE ScheduleDates(_, _, _, _)
ScheduleDates(h, dates, events, run) ==
    IF dates = <<>> THEN h
    ELSE Bind(EventsOn(events, Head(dates)), LAMBDA onDate :
         Bind(scheduleDailyAlert(h, Head(dates), onDate, run), LAMBDA daily :
         Bind(SchedulePreEventAlerts(daily, onDate, run), LAMBDA pre :
             ScheduleDates(pre, Tail(dates), events, run))))

\* the old alerts cancelled before the events are grouped
CancelThenGroup(h, highImpactUSD, run) ==
    IF \E i \in DOMAIN highImpactUSD : ~highImpactUSD[i].valid
    THEN [heap |-> cancelAllAlerts(h), result |-> "threw"]
    ELSE Bind(cancelAllAlerts(h), LAMBDA cancelled :
             [heap |-> ScheduleDates(cancelled,
                                     SortAscending(DateKeysOf(highImpactUSD, <<>>)),
                                     highImpactUSD, run),
              result |-> "scheduled"])

\* steps 3 and 4 of fetchAndScheduleAlerts
GroupAndSchedule(h, highImpactUSD, run) ==
    IF \E i \in DOMAIN highImpactUSD : ~highImpactUSD[i].valid
    THEN [heap |-> h, result |-> "threw"]      \* getDateKey: Invalid time value
    ELSE Bind(DateKeysOf(highImpactUSD, <<>>), LAMBDA keys :
         Bind(cancelAllAlerts(h), LAMBDA cancelled :
         Bind(SortAscending(keys), LAMBDA dates :
             [heap |-> ScheduleDates(cancelled, dates, highImpactUSD, run),
              result |-> "scheduled"])))

\* fetchAndScheduleAlerts from the return of fetchCalendar to its end:
\* the heap it leaves and how it ended
fetchAndScheduleAlerts(h, data, run) ==
    IF ~data.array
    THEN [heap |-> h, result |-> "threw"]      \* events.filter is not a function
    ELSE Bind(filterHighImpactUSD(data.items), LAMBDA highImpactUSD :
             IF Len(highImpactUSD) = 0
             THEN [heap |-> h, result |-> "empty"]
             ELSE GroupAndSchedule(h, highImpactUSD, run))

(***************************************************************************)
(* monthlyCronRegistrar.service.js and monthlyScheduler.cron.js            *)
(***************************************************************************)

\* every task of the process stopped, not those of activeCronTasks only
clearEveryJob(h) ==
    IF Len(h.activeCronTasks) > 0
    THEN [h EXCEPT !.tasks = StopAll(@, DOMAIN h.tasks),
                   !.activeCronTasks = <<>>]
    ELSE h

\* the array emptied, its tasks left started
clearScheduledJobsNoStop(h) == [h EXCEPT !.activeCronTasks = <<>>]

clearScheduledJobs(h) ==
    IF Len(h.activeCronTasks) > 0
    THEN [h EXCEPT !.tasks = StopAll(@, Range(h.activeCronTasks)),
                   !.activeCronTasks = <<>>]
    ELSE h

\* the minute, hour, day and month of the date in config.scheduler.timezone
getCronExpressionFromDate(date) ==
    Bind(PartsOf(date, config.timezone), LAMBDA p :
        [minute |-> p.minute, hour |-> p.hour, day |-> p.day, month |-> p.month])

\* cron.schedule(cronExpression, callback) with no timezone option:
\* node-cron matches the expression in the host's local time
MonthlyTaskZone == hostOffset

\* the task of a date: its alert time is 3 minutes before the date
MonthlyTask(date) ==
    NewTask("monthly", getCronExpressionFromDate(date - 3), MonthlyTaskZone, 0, <<>>, date)

\* the dates, not their alert times, compared with the clock
RegisterFutureDates(h, scheduleDates) ==
    Bind(SelectSeq(scheduleDates, LAMBDA date : date > now), LAMBDA future :
        [h EXCEPT !.tasks = @ \o [k \in 1..Len(future) |-> MonthlyTask(future[k])],
                  !.activeCronTasks = @ \o [k \in 1..Len(future) |-> Len(h.tasks) + k]])

\* scheduleDates.forEach(...): one task, pushed on activeCronTasks, for every
\* date whose alert time is in the future
RegisterDates(h, scheduleDates) ==
    Bind(SelectSeq(scheduleDates, LAMBDA date : date - 3 > now), LAMBDA future :
        [h EXCEPT !.tasks = @ \o [k \in 1..Len(future) |-> MonthlyTask(future[k])],
                  !.activeCronTasks = @ \o [k \in 1..Len(future) |-> Len(h.tasks) + k]])

registerMonthlySchedule(h, scheduleDates) ==
    Bind(clearScheduledJobs(h), LAMBDA cleared :
        IF Len(scheduleDates) = 0 THEN cleared ELSE RegisterDates(cleared, scheduleDates))

\* what the audit-log step can meet
AuditOutcomes == {"ok", "mkdirFails", "writeFails"}

NoSchedule == [result |-> "none", audit |-> "none", schedule |-> <<>>, at |-> 0]

\* steps 2 and 3 of runMonthlyScheduler: logScheduleToFile, which returns at
\* once on an empty schedule, then registerMonthlySchedule
LogAndRegister(h, schedule, audit) ==
    IF Len(schedule) = 0
    THEN [heap |-> registerMonthlySchedule(h, schedule), result |-> "registered",
          audit |-> "none", schedule |-> schedule, at |-> now]
    ELSE IF audit = "mkdirFails"                   \* logScheduleToFile throws
    THEN [heap |-> h, result |-> "error", audit |-> audit,
          schedule |-> schedule, at |-> now]
    ELSE [heap |-> registerMonthlySchedule(h, schedule), result |-> "registered",
          audit |-> audit, schedule |-> schedule, at |-> now]

\* runMonthlyScheduler: the heap each way of ending leaves
runMonthlyScheduler(h) ==
    IF ~config.startTime.valid                     \* generation throws
    THEN { [heap |-> h, result |-> "error", audit |-> "none",
            schedule |-> <<>>, at |-> now] }
    ELSE Bind(generateMonthlySchedule(config.startTime, config.timezone, now),
              LAMBDA schedule :
                  { LogAndRegister(h, schedule, audit) : audit \in AuditOutcomes })

(***************************************************************************)
(* The environment: the feed, the clock, the cron expressions of the two   *)
(* periodic jobs                                                           *)
(***************************************************************************)

\* the offset the feed writes its dates with (-05:00)
FeedOffset == -300

\* Sunday 00:00 (feed time) of the week holding instant t: the feed lists
\* "this week's" events
WeekStart(t) ==
    Bind((t + FeedOffset) \div 1440, LAMBDA days :
        (days - ((days + 4) % 7)) * 1440 - FeedOffset)

\* an event of the feed on day d (0 is Sunday) at h:mi feed time
FeedEvent(title, impact, country, d, h, mi, valid) ==
    [title |-> title, impact |-> impact, country |-> country,
     date |-> WeekStart(now) + d * 1440 + h * 60 + mi, valid |-> valid]

EvBanks  == FeedEvent("Bank Holiday", "High", "USD", 0, 8, 0, TRUE)
EvISM    == FeedEvent("ISM", "High", "USD", 1, 8, 30, TRUE)
EvCPI    == FeedEvent("CPI", "High", "USD", 2, 8, 30, TRUE)
EvFOMC   == FeedEvent("FOMC", "High", "USD", 2, 10, 0, TRUE)
EvECB    == FeedEvent("ECB", "Medium", "EUR", 2, 11, 0, TRUE)
EvGDP    == FeedEvent("GDP", "High", "EUR", 2, 9, 0, TRUE)
EvClaims == FeedEvent("Claims", "Low", "USD", 2, 8, 30, TRUE)
EvPMI    == FeedEvent("PMI", "High", "USD", 2, 12, 2, TRUE)
EvBad    == FeedEvent("TBD", "High", "USD", 0, 0, 0, FALSE)
EvJobs   == FeedEvent("Jobs", "High", "USD", 1, 13, 0, TRUE)
EvRetail == FeedEvent("Retail", "high", "usd", 2, 8, 30, TRUE)
EvNFP    == FeedEvent("NFP", "High", "USD", 1, 12, 2, TRUE)

\* responses without a qualifying event
QuietFeed ==
    { [array |-> TRUE, items |-> <<>>],
      [array |-> TRUE, items |-> <<EvECB, EvClaims, EvGDP>>] }

\* what response.data can be: no qualifying event; events of three dates, one
\* of them passed, out of order; an event listed twice, whose alert falls on
\* the eve of its date; an event without a date; not an array
FeedData ==
    { [array |-> TRUE, items |-> <<EvECB, EvClaims, EvGDP>>],
      [array |-> TRUE, items |-> <<EvCPI, EvBanks, EvECB, EvISM, EvFOMC>>],
      [array |-> TRUE, items |-> <<EvPMI, EvClaims, EvPMI>>],
      [array |-> TRUE, items |-> <<EvCPI, EvBad>>],
      [array |-> FALSE, items |-> <<>>] }

\* '0 5 * * 1' in 'Asia/Ho_Chi_Minh'
WeeklyMatches(t) ==
    Bind(PartsOf(t, 420), LAMBDA p : p.minute = 0 /\ p.hour = 5 /\ p.weekday = 1)

\* '0 0 1 * *' in config.scheduler.timezone
MonthlyMatches(t) ==
    Bind(PartsOf(t, config.timezone), LAMBDA p : p.minute = 0 /\ p.hour = 0 /\ p.day = 1)

\* whether the month m of year y has a day d
ExistsDate(y, m, d) ==
    DaysFromCivil(y, m, d) < DaysFromCivil(IF m = 12 THEN y + 1 ELSE y,
                                           IF m = 12 THEN 1 ELSE m + 1, 1)

\* the instants after t at which a task's expression matches, in year y (the
\* year of t in the task's timezone) and the next
TaskNext(task, t, y) ==
    { c \in { InstantOf(yy, task.month, task.day, task.hour, task.minute, task.zone) :
                yy \in { v \in {y, y + 1} : ExistsDate(v, task.month, task.day) } } :
        c > t }

WeeklyNext(t) ==
    Bind((t + 420) \div 1440, LAMBDA day :
        { c \in { (day + k) * 1440 + 5 * 60 - 420 : k \in 0..7 } :
            c > t /\ WeeklyMatches(c) })

MonthlyNext(t) ==
    Bind(PartsOf(t, config.timezone), LAMBDA p :
        { c \in { InstantOf(p.year, p.month + k, 1, 0, 0, config.timezone) : k \in {0, 1} } :
            c > t })

Min(S) == CHOOSE x \in S : \A y \in S : x <= y

\* a started task whose expression matches the current minute and that has
\* not run in it (a task created in a minute is first checked in the next)
Due(i) ==
    /\ tasks[i].status = "scheduled"
    /\ tasks[i].created < now
    /\ tasks[i].lastFired < now
    /\ Matches(tasks[i], now)

WeeklyDue == mainPc # "start" /\ cronLast.weekly < now /\ WeeklyMatches(now)

MonthlyDue == mainPc # "start" /\ cronLast.monthly < now /\ MonthlyMatches(now)

Callers == {"main", "weekly"}

Heap == [tasks |-> tasks, scheduledAlerts |-> scheduledAlerts,
         activeCronTasks |-> activeCronTasks]

(***************************************************************************)
(* Actions                                                                 *)
(***************************************************************************)

\* main() up to its await: startWeeklyCron(), startMonthlyCron() and the call
\* of fetchAndScheduleAlerts(), which runs up to its await of fetchCalendar()
Main ==
    /\ mainPc = "start"
    /\ mainPc' = "awaiting"
    /\ cronLast' = [weekly |-> now, monthly |-> now]
    /\ runs' = [runs EXCEPT !["main"] = [pc |-> "fetching", started |-> now, id |-> nextRun]]
    /\ nextRun' = nextRun + 1
    /\ UNCHANGED <<now, hostOffset, config, gen, outcome, tasks, scheduledAlerts,
                   activeCronTasks, monthlyOutcome, lastDelivery>>

\* the weekly cron calls fetchAndScheduleAlerts(), which runs up to its await
WeeklyCron ==
    /\ WeeklyDue
    /\ runs["weekly"].pc = "idle"
    /\ cronLast' = [cronLast EXCEPT !.weekly = now]
    /\ runs' = [runs EXCEPT !["weekly"] = [pc |-> "fetching", started |-> now, id |-> nextRun]]
    /\ nextRun' = nextRun + 1
    /\ UNCHANGED <<now, hostOffset, config, gen, mainPc, outcome, tasks, scheduledAlerts,
                   activeCronTasks, monthlyOutcome, lastDelivery>>

\* the heap and the outcome a call of runMonthlyScheduler leaves
ApplyMonthly(m) ==
    /\ tasks' = m.heap.tasks
    /\ scheduledAlerts' = m.heap.scheduledAlerts
    /\ activeCronTasks' = m.heap.activeCronTasks
    /\ monthlyOutcome' = [result |-> m.result, audit |-> m.audit,
                           schedule |-> m.schedule, at |-> m.at]

\* the end of a call whose fetch failure is rethrown: main() stops there
FinishRethrowing(c, h, res, items) ==
    /\ runs[c].pc = "fetching"
    /\ runs' = [runs EXCEPT ![c].pc = "idle"]
    /\ outcome' = [outcome EXCEPT ![c] =
                      [result |-> res, items |-> items, run |-> runs[c].id,
                       concurrent |-> { d \in Callers \ {c} : runs[d].pc = "fetching" }]]
    /\ IF c = "main" /\ res # "fetchFailed"
       THEN /\ \E m \in runMonthlyScheduler(h) : ApplyMonthly(m)
            /\ mainPc' = "done"
       ELSE /\ tasks' = h.tasks
            /\ scheduledAlerts' = h.scheduledAlerts
            /\ activeCronTasks' = h.activeCronTasks
            /\ mainPc' = IF c = "main" THEN "failed" ELSE mainPc
            /\ UNCHANGED monthlyOutcome
    /\ UNCHANGED <<now, hostOffset, config, gen, nextRun, cronLast, lastDelivery>>

\* the end of caller c's call of fetchAndScheduleAlerts with heap h and result
\* res; when the caller is main(), main() goes on to runMonthlyScheduler()
Finish(c, h, res, items) ==
    /\ runs[c].pc = "fetching"
    /\ runs' = [runs EXCEPT ![c].pc = "idle"]
    /\ outcome' = [outcome EXCEPT ![c] =
                      [result |-> res, items |-> items, run |-> runs[c].id,
                       concurrent |-> { d \in Callers \ {c} : runs[d].pc = "fetching" }]]
    /\ IF c = "main"
       THEN /\ \E m \in runMonthlyScheduler(h) : ApplyMonthly(m)
            /\ mainPc' = "done"
       ELSE /\ tasks' = h.tasks
            /\ scheduledAlerts' = h.scheduledAlerts
            /\ activeCronTasks' = h.activeCronTasks
            /\ UNCHANGED <<monthlyOutcome, mainPc>>
    /\ UNCHANGED <<now, hostOffset, config, gen, nextRun, cronLast, lastDelivery>>

\* fetchCalendar() throws (network error, timeout): the catch block logs it
FetchThrows(c) == Finish(c, Heap, "fetchFailed", <<>>)

\* fetchCalendar() returns a response.data of feed and the call runs to its end
FetchReturnsFrom(c, feed) ==
    \E data \in feed :
        \E r \in {fetchAndScheduleAlerts(Heap, data, runs[c].id)} :
            Finish(c, r.heap, r.result, data.items)

FetchReturns(c) == FetchReturnsFrom(c, FeedData)

\* the monthly cron calls runMonthlyScheduler()
MonthlyCron ==
    /\ MonthlyDue
    /\ cronLast' = [cronLast EXCEPT !.monthly = now]
    /\ \E m \in runMonthlyScheduler(Heap) : ApplyMonthly(m)
    /\ UNCHANGED <<now, hostOffset, config, gen, mainPc, runs, nextRun, outcome, lastDelivery>>

\* a callback whose failed delivery stops its task
CallbackStopsOnFailure(i, kind) ==
    /\ i \in DOMAIN tasks
    /\ tasks[i].kind = kind
    /\ Due(i)
    /\ \E d \in {"sent", "failed"} :
          /\ lastDelivery' = d
          /\ tasks' = [tasks EXCEPT ![i].fired = @ + 1, ![i].lastFired = now,
                                    ![i].status = IF d = "failed" THEN "stopped" ELSE @]
    /\ UNCHANGED <<now, hostOffset, config, gen, mainPc, runs, nextRun, outcome,
                   scheduledAlerts, activeCronTasks, cronLast, monthlyOutcome>>

\* a task's callback runs: it attempts one delivery and catches its failure
Callback(i, kind) ==
    /\ i \in DOMAIN tasks
    /\ tasks[i].kind = kind
    /\ Due(i)
    /\ tasks' = [tasks EXCEPT ![i].fired = @ + 1, ![i].lastFired = now]
    /\ lastDelivery' \in {"sent", "failed"}
    /\ UNCHANGED <<now, hostOffset, config, gen, mainPc, runs, nextRun, outcome,
                   scheduledAlerts, activeCronTasks, cronLast, monthlyOutcome>>

DailyAlert == \E i \in DOMAIN tasks : Callback(i, "daily")

PreEventAlert == \E i \in DOMAIN tasks : Callback(i, "pre")

MonthlyAlert == \E i \in DOMAIN tasks : Callback(i, "monthly")

\* the next minute after now in which a started task or one of the two
\* periodic jobs is due; yt and yh are the year of now in the two timezones
\* tasks are matched in
NextDueIn(yt, yh) ==
    Bind(UNION { TaskNext(tasks[i], now, IF tasks[i].zone = TARGET_TIMEZONE THEN yt ELSE yh) :
                   i \in { j \in DOMAIN tasks : tasks[j].status = "scheduled" } }
         \cup WeeklyNext(now) \cup MonthlyNext(now),
         Min)

NextDue ==
    Bind(PartsOf(now, TARGET_TIMEZONE).year, LAMBDA yt :
    Bind(PartsOf(now, hostOffset).year, LAMBDA yh : NextDueIn(yt, yh)))

\* time passes to the next minute in which something is due, up to the
\* horizon; a fetch (timeout 10 s) is over by the end of the minute after the
\* one it began in.  lastDelivery is that of the current minute.
TickTo(horizon) ==
    /\ mainPc # "start"
    /\ now < horizon
    /\ \A i \in DOMAIN tasks : ~Due(i)
    /\ ~WeeklyDue
    /\ ~MonthlyDue
    /\ \E t \in {NextDue} :
          /\ t <= horizon
          /\ \A c \in Callers : runs[c].pc = "fetching" => t <= runs[c].started + 1
          /\ now' = t
    /\ lastDelivery' = "none"
    /\ UNCHANGED <<hostOffset, config, gen, mainPc, runs, nextRun, outcome, tasks,
                   scheduledAlerts, activeCronTasks, cronLast, monthlyOutcome>>

\* bound: the hours the clock runs past Monday 2026-08-31 00:00 (UTC+7)
HorizonHours == 24

Horizon == InstantOf(2026, 8, 31, 0, 0, 420) + HorizonHours * 60

Tick == TickTo(Horizon)

\* the default SCHEDULER_START_TIME
DefaultStartTime ==
    [valid |-> TRUE, year |-> 2026, month |-> 2, day |-> 9, hour |-> 17, minute |-> 0]

\* a SCHEDULER_START_TIME that is still to come
LateStartTime ==
    [valid |-> TRUE, year |-> 2028, month |-> 2, day |-> 9, hour |-> 17, minute |-> 0]

\* a SCHEDULER_START_TIME that new Date() cannot parse
InvalidStartTime ==
    [valid |-> FALSE, year |-> 0, month |-> 0, day |-> 0, hour |-> 0, minute |-> 0]

Configs ==
    { [startTime |-> st, timezone |-> 420] :
        st \in {DefaultStartTime, LateStartTime, InvalidStartTime} }

\* the instant at which the process is started: the last Monday of August
\* 2026, a minute before the weekly cron
BootTime == InstantOf(2026, 8, 31, 4, 59, 420)

NoOutcome == [result |-> "none", items |-> <<>>, run |-> 0, concurrent |-> {}]

InitSystem ==
    /\ mainPc = "start"
    /\ runs = [c \in Callers |-> [pc |-> "idle", started |-> 0, id |-> 0]]
    /\ nextRun = 1
    /\ outcome = [c \in Callers |-> NoOutcome]
    /\ tasks = <<>>
    /\ scheduledAlerts = <<>>
    /\ activeCronTasks = <<>>
    /\ cronLast = [weekly |-> 0, monthly |-> 0]
    /\ monthlyOutcome = NoSchedule
    /\ lastDelivery = "none"

Init ==
    /\ now = BootTime
    /\ hostOffset \in HostOffsets
    /\ config \in Configs
    /\ gen = GenIdle
    /\ InitSystem

Next ==
    \/ Main
    \/ WeeklyCron
    \/ \E c \in Callers : FetchThrows(c)
    \/ \E c \in Callers : FetchReturns(c)
    \/ MonthlyCron
    \/ DailyAlert
    \/ PreEventAlert
    \/ MonthlyAlert
    \/ Tick

Spec == Init /\ [][Next]_vars

(***************************************************************************)
(* The generator run step by step                                          *)
(***************************************************************************)

\* SCHEDULER_START_TIME as configured (the first is the default)
StartTimes ==
    { DefaultStartTime,
      [valid |-> TRUE, year |-> 2026, month |-> 1, day |-> 31, hour |-> 23, minute |-> 30],
      [valid |-> TRUE, year |-> 2026, month |-> 3, day |-> 30, hour |-> 17, minute |-> 0],
      [valid |-> TRUE, year |-> 2018, month |-> 6, day |-> 1, hour |-> 0, minute |-> 0] }

\* SCHEDULER_TIMEZONE as configured: zones of fixed offset
\* (Asia/Ho_Chi_Minh, the default; UTC; Pacific/Honolulu)
SchedulerZones == {420, 0, -600}

\* dates standing for the target months
TargetDates ==
    { InstantOf(2025, 12, 31, 23, 0, 0), InstantOf(2026, 1, 15, 12, 0, 0),
      InstantOf(2026, 2, 1, 0, 0, 0), InstantOf(2026, 2, 28, 20, 0, 0),
      InstantOf(2026, 3, 31, 8, 0, 0) }

GenCall ==
    /\ gen.pc \in {"idle", "returned"}
    /\ \E st \in StartTimes, tz \in SchedulerZones, td \in TargetDates :
          /\ config' = [startTime |-> st, timezone |-> tz]
          /\ now' = td
          /\ gen' = GenEnter(st, tz, td)
    /\ UNCHANGED <<hostOffset, sysVars>>

GenIterate ==
    /\ gen.pc = "loop"
    /\ gen' = GenStep(gen)
    /\ UNCHANGED <<now, hostOffset, config, sysVars>>

GenReturn ==
    /\ gen.pc = "sort"
    /\ gen' = [gen EXCEPT !.pc = "returned", !.schedule = SortAscending(@)]
    /\ UNCHANGED <<now, hostOffset, config, sysVars>>

InitGen ==
    /\ now = InstantOf(2026, 2, 1, 0, 0, 0)
    /\ hostOffset \in HostOffsets
    /\ config = [startTime |-> DefaultStartTime, timezone |-> 420]
    /\ gen = GenIdle
    /\ InitSystem

NextGen == GenCall \/ GenIterate \/ GenReturn

SpecGen == InitGen /\ [][NextGen]_vars

(***************************************************************************)
(* A year of running: after the first week the feed has no qualifying      *)
(* event, and the slot pattern has not begun                               *)
(***************************************************************************)

\* bound: the days the clock runs past Monday 2026-08-31 00:00 (UTC+7)
HorizonYearDays == 366

HorizonYear == InstantOf(2026, 8, 31, 0, 0, 420) + HorizonYearDays * 1440

TickYear == TickTo(HorizonYear)

\* the first call sees any response, the later ones a quiet week
FetchReturnsYear(c) ==
    FetchReturnsFrom(c, IF runs[c].id = 1 THEN FeedData ELSE QuietFeed)

InitYear ==
    /\ now = BootTime
    /\ hostOffset \in HostOffsets
    /\ config = [startTime |-> LateStartTime, timezone |-> 420]
    /\ gen = GenIdle
    /\ InitSystem

NextYear ==
    \/ Main
    \/ WeeklyCron
    \/ \E c \in Callers : FetchThrows(c)
    \/ \E c \in Callers : FetchReturnsYear(c)
    \/ MonthlyCron
    \/ DailyAlert
    \/ PreEventAlert
    \/ TickYear

SpecYear == InitYear /\ [][NextYear]_vars

(***************************************************************************)
(* Properties                                                              *)
(***************************************************************************)

\* caller c's call of fetchAndScheduleAlerts ends in this step
Ends(c) == runs[c].pc = "fetching" /\ runs'[c].pc = "idle"

Qualifies(event) == event.impact = "High" /\ event.country = "USD"

\* the instant a handle of the alert registry is meant for: 07:00 (UTC+7) of
\* the date of its events, or 5 minutes before its event
AlertInstant(task) ==
    IF task.kind = "daily"
    THEN Bind(PartsOf(task.events[1].date, 420), LAMBDA p :
             InstantOf(p.year, p.month, p.day, 7, 0, 420))
    ELSE task.events[1].date - 5

\* C1: a call of fetchAndScheduleAlerts that fetches and finds no High-impact
\* USD event stops every handle of the alert registry and leaves it empty
C1_EmptyRunReplaces ==
    [][\A c \in Callers :
          Ends(c) /\ outcome'[c].result = "empty"
          => /\ scheduledAlerts' = <<>>
             /\ \A i \in Range(scheduledAlerts) : tasks'[i].status = "stopped"]_vars

\* C2: a call of fetchAndScheduleAlerts in which the fetch, the filter or the
\* grouping throws leaves the alert registry as it was: the same handles, none
\* stopped, no alert handle created
C2_FailedRunKeepsRegistry ==
    [][\A c \in Callers :
          Ends(c) /\ outcome'[c].result \in {"fetchFailed", "threw"}
          => /\ scheduledAlerts' = scheduledAlerts
             /\ \A i \in Range(scheduledAlerts) : tasks'[i] = tasks[i]
             /\ \A i \in DOMAIN tasks' \ DOMAIN tasks : tasks'[i].kind = "monthly"]_vars

\* a call failed while the registry held the started handles of an earlier call
C2_Witness ==
    \E c \in Callers :
        /\ runs[c].pc = "idle"
        /\ outcome[c].result \in {"fetchFailed", "threw"}
        /\ scheduledAlerts # <<>>
        /\ \A i \in Range(scheduledAlerts) :
              tasks[i].run < outcome[c].run /\ tasks[i].status = "scheduled"

\* C3: after registerMonthlySchedule is called at T with a list of slots, the
\* monthly registry holds one handle for each slot with slot - 3 minutes > T,
\* none for any other slot, and nothing else; the call does not fail
C3_RegistryIsTheFutureSlots ==
    monthlyOutcome.result = "registered"
    => /\ \A k \in DOMAIN monthlyOutcome.schedule :
             Cardinality({ j \in DOMAIN activeCronTasks :
                             tasks[activeCronTasks[j]].slot = monthlyOutcome.schedule[k] })
             = IF monthlyOutcome.schedule[k] - 3 > monthlyOutcome.at THEN 1 ELSE 0
       /\ \A j \in DOMAIN activeCronTasks :
             /\ tasks[activeCronTasks[j]].kind = "monthly"
             /\ tasks[activeCronTasks[j]].created = monthlyOutcome.at
             /\ \E k \in DOMAIN monthlyOutcome.schedule :
                   tasks[activeCronTasks[j]].slot = monthlyOutcome.schedule[k]

\* a registration whose list held slots on both sides of the call time
C3_Witness ==
    /\ monthlyOutcome.result = "registered"
    /\ \E k \in DOMAIN monthlyOutcome.schedule :
          monthlyOutcome.schedule[k] - 3 <= monthlyOutcome.at
    /\ \E k \in DOMAIN monthlyOutcome.schedule :
          monthlyOutcome.schedule[k] - 3 > monthlyOutcome.at
    /\ activeCronTasks # <<>>

\* C4: every handle in the alert registry is meant for an instant after the
\* call that created it
C4_AlertsAreInTheFuture ==
    \A i \in Range(scheduledAlerts) : AlertInstant(tasks[i]) > tasks[i].created

\* C5: no task runs its callback more than once
C5_FiresAtMostOnce ==
    \A i \in DOMAIN tasks : tasks[i].fired <= 1

\* C6: a task of the monthly registry runs its callback at slot - 3 minutes,
\* whatever timezone the host's clock is set to
C6_MonthlyFiresAtSlotMinusThree ==
    \A i \in DOMAIN tasks :
        /\ tasks[i].kind = "monthly"
        /\ tasks[i].fired > 0
        => tasks[i].lastFired = tasks[i].slot - 3

\* C7: a handle that a replace has removed from its registry is stopped and
\* never runs its callback again
C7_ReplacedHandlesNeverFire ==
    [][\A i \in DOMAIN tasks :
          i \notin Range(scheduledAlerts') \cup Range(activeCronTasks')
          => tasks'[i].status = "stopped" /\ tasks'[i].fired = tasks[i].fired]_vars

\* the minute of a handle that a later call replaced before it ever ran
C7_Witness ==
    \E i \in DOMAIN tasks :
        /\ i \notin Range(scheduledAlerts) \cup Range(activeCronTasks)
        /\ tasks[i].status = "stopped"
        /\ tasks[i].fired = 0
        /\ tasks[i].created < now
        /\ Matches(tasks[i], now)
        /\ scheduledAlerts # <<>>

\* the number of handles a call installs for the items it fetched
HandlesFor(items) ==
    Cardinality({ getDateKey(items[k].date) : k \in { n \in DOMAIN items : Qualifies(items[n]) } })
    + Cardinality({ n \in DOMAIN items : Qualifies(items[n]) })

\* C8: in every state the alert registry is empty or holds the started handles
\* of one call of fetchAndScheduleAlerts, all of them
C8_RegistryIsOneRunsSet ==
    \/ scheduledAlerts = <<>>
    \/ \E r \in 1..(nextRun - 1) :
          /\ Range(scheduledAlerts) = { i \in DOMAIN tasks : tasks[i].run = r }
          /\ \A i \in Range(scheduledAlerts) : tasks[i].status = "scheduled"
          /\ \A c \in Callers :
                outcome[c].run = r => Len(scheduledAlerts) = HandlesFor(outcome[c].items)

\* two calls were in flight together and both installed their handles
C8_Witness ==
    \E c \in Callers : \E d \in Callers \ {c} :
        /\ outcome[c].result = "scheduled"
        /\ outcome[c].concurrent = {d}
        /\ runs[d].pc = "idle"
        /\ outcome[d].result = "scheduled"
        /\ scheduledAlerts # <<>>

\* the registry reg over the tasks ts holds one daily handle per date key of
\* the qualifying items, with the qualifying items of that date, one pre-event
\* handle per qualifying item, and nothing else
RegistryHolds(items, reg, ts) ==
    LET Q     == { n \in DOMAIN items : Qualifies(items[n]) }
        keys  == { getDateKey(items[n].date) : n \in Q }
        daily == { j \in DOMAIN reg : ts[reg[j]].kind = "daily" }
        pre   == { j \in DOMAIN reg : ts[reg[j]].kind = "pre" }
    IN  /\ daily \cup pre = DOMAIN reg
        /\ Cardinality(daily) = Cardinality(keys)
        /\ \A key \in keys : \E j \in daily :
              /\ ts[reg[j]].day = key % 100
              /\ ts[reg[j]].month = (key \div 100) % 100
              /\ ts[reg[j]].events =
                     SelectSeq(items, LAMBDA e : Qualifies(e) /\ getDateKey(e.date) = key)
        /\ Cardinality(pre) = Cardinality(Q)
        /\ \A n \in Q :
              Cardinality({ j \in pre : ts[reg[j]].events = <<items[n]>> })
              = Cardinality({ m \in Q : items[m] = items[n] })

\* C9: when a call of fetchAndScheduleAlerts that found a qualifying event
\* ends, the alert registry holds one daily handle per date key, carrying the
\* qualifying events of that date, and one pre-event handle per qualifying event
C9_OneDailyPerDateOnePrePerEvent ==
    [][\A c \in Callers :
          Ends(c) /\ outcome'[c].result = "scheduled"
          => RegistryHolds(outcome'[c].items, scheduledAlerts', tasks')]_vars

\* a call installed handles for items of several dates, some failing the filter
C9_Witness ==
    \E c \in Callers :
        /\ outcome[c].result = "scheduled"
        /\ \E n \in DOMAIN outcome[c].items : ~Qualifies(outcome[c].items[n])
        /\ scheduledAlerts # <<>>
        /\ tasks[scheduledAlerts[1]].run = outcome[c].run
        /\ Cardinality({ j \in DOMAIN scheduledAlerts :
                           tasks[scheduledAlerts[j]].kind = "daily" }) >= 2

\* C10: the sequence generateMonthlySchedule returns is strictly ascending and
\* each of its instants lies, in the timezone, in the year and month of the
\* target date
C10_AscendingInTargetMonth ==
    gen.pc = "returned"
    => /\ \A i \in 1..(Len(gen.schedule) - 1) : gen.schedule[i] < gen.schedule[i + 1]
       /\ \A i \in DOMAIN gen.schedule :
             /\ PartsOf(gen.schedule[i], config.timezone).year
                = PartsOf(now, config.timezone).year
             /\ PartsOf(gen.schedule[i], config.timezone).month
                = PartsOf(now, config.timezone).month

\* a returned sequence with clones whose last main slot has its clone in the
\* next month
C10_Witness ==
    /\ gen.pc = "returned"
    /\ Len(gen.schedule) >= 3
    /\ \E i \in 1..(Len(gen.schedule) - 1) : gen.schedule[i + 1] = gen.schedule[i] + 60
    /\ PartsOf(gen.schedule[Len(gen.schedule)] + 60, config.timezone).month
       # PartsOf(now, config.timezone).month

\* the anchor of the walk of the call in progress
Anchor == NewDateLocal(config.startTime)

\* an instant the walk from the anchor visits: the anchor plus a prefix of
\* 8h, 8h, 4h, 8h, 8h, 4h, ...
IsMainSlot(x) == x >= Anchor /\ (x - Anchor) % 1200 \in {0, 480, 960}

\* the first and the last minute of the target month in the timezone
TargetMonthStart ==
    Bind(PartsOf(now, config.timezone), LAMBDA p :
        InstantOf(p.year, p.month, 1, 0, 0, config.timezone))

TargetMonthEnd ==
    Bind(PartsOf(now, config.timezone), LAMBDA p :
        InstantOf(IF p.month = 12 THEN p.year + 1 ELSE p.year,
                  IF p.month = 12 THEN 1 ELSE p.month + 1, 1, 0, 0, config.timezone) - 1)

\* C11: in the sequence generateMonthlySchedule returns, the clone m + 1 hour
\* of a main slot m is present exactly when m + 1 hour is in the target month,
\* and every other element is the clone of a main slot that is present
C11_CloneIffInTargetMonth ==
    gen.pc = "returned"
    => \A i \in DOMAIN gen.schedule :
          IF IsMainSlot(gen.schedule[i])
          THEN (gen.schedule[i] + 60 \in Range(gen.schedule))
               <=> (gen.schedule[i] + 60 <= TargetMonthEnd)
          ELSE /\ gen.schedule[i] - 60 \in Range(gen.schedule)
               /\ IsMainSlot(gen.schedule[i] - 60)
               /\ gen.schedule[i] <= TargetMonthEnd

\* a returned sequence with a main slot in the last hour of the month, without
\* its clone, and a main slot with its clone
C11_Witness ==
    /\ gen.pc = "returned"
    /\ \E i \in DOMAIN gen.schedule :
          /\ IsMainSlot(gen.schedule[i])
          /\ gen.schedule[i] + 60 > TargetMonthEnd
          /\ gen.schedule[i] + 60 \notin Range(gen.schedule)
    /\ \E i \in DOMAIN gen.schedule :
          /\ IsMainSlot(gen.schedule[i])
          /\ gen.schedule[i] + 60 \in Range(gen.schedule)

\* C12: every handle that is a member of a registry is started and has not
\* run its callback
C12_MembersAreStillScheduled ==
    \A i \in Range(scheduledAlerts) \cup Range(activeCronTasks) :
        tasks[i].status = "scheduled" /\ tasks[i].fired = 0

\* C13: a callback whose delivery fails changes nothing but the count of its
\* own task: no registry changes, no task is stopped, and every other task
\* that was due is still due
C13_DeliveryFailureIsContained ==
    [][\A i \in DOMAIN tasks :
          tasks'[i].fired = tasks[i].fired + 1 /\ lastDelivery' = "failed"
          => /\ scheduledAlerts' = scheduledAlerts
             /\ activeCronTasks' = activeCronTasks
             /\ DOMAIN tasks' = DOMAIN tasks
             /\ \A j \in DOMAIN tasks :
                   /\ tasks'[j].status = tasks[j].status
                   /\ j # i => tasks'[j] = tasks[j] /\ (Due(j) => Due(j)')]_vars

\* a delivery has just failed while handles of both registries, of the three
\* kinds, are still to run
C13_Witness ==
    /\ lastDelivery = "failed"
    /\ \E i \in DOMAIN tasks : tasks[i].lastFired = now /\ tasks[i].status = "scheduled"
    /\ \E j \in Range(scheduledAlerts) :
          tasks[j].status = "scheduled" /\ tasks[j].fired = 0
    /\ \E j \in Range(activeCronTasks) :
          tasks[j].status = "scheduled" /\ tasks[j].fired = 0

(***************************************************************************)
(* The first call of fetchAndScheduleAlerts over every short feed           *)
(***************************************************************************)

\* bound: the number of events of a response
MaxFeedLen == 3

\* events a response is made of: of three dates of the feed and of two dates
\* of UTC+7 either side of midnight, and events the filter drops
FeedPool == {EvJobs, EvCPI, EvPMI, EvClaims, EvGDP, EvRetail}

FeedsOfPool ==
    { [array |-> TRUE, items |-> items] :
        items \in UNION { [1..n -> FeedPool] : n \in 0..MaxFeedLen } }

FetchReturnsPool == FetchReturnsFrom("main", FeedsOfPool)

InitFeed ==
    /\ now = BootTime
    /\ hostOffset \in HostOffsets
    /\ config = [startTime |-> LateStartTime, timezone |-> 420]
    /\ gen = GenIdle
    /\ InitSystem

NextFeed == Main \/ FetchReturnsPool

SpecFeed == InitFeed /\ [][NextFeed]_vars

\* the day number of an instant in UTC+7, and in the offset of the feed
TargetDay(date) == (date + 420) \div 1440

SourceDay(date) == (date + FeedOffset) \div 1440

\* the items at the indices n of Q, in the order of the indices
Pick(items, Q) ==
    [k \in 1..Cardinality(Q) |->
        items[CHOOSE n \in Q : Cardinality({ m \in Q : m <= n }) = k]]

\* C14: in the registry a call leaves, two qualifying events are carried by
\* the same daily handle if and only if their instants are on the same day of
\* UTC+7, and that handle is set for that day
C14_SameBucketIffSameTargetDay ==
    \A c \in Callers :
        /\ outcome[c].result = "scheduled"
        /\ scheduledAlerts # <<>>
        /\ tasks[scheduledAlerts[1]].run = outcome[c].run
        => LET items == outcome[c].items
               Q == { n \in DOMAIN items : Qualifies(items[n]) }
               Bucket(n) == { j \in Range(scheduledAlerts) :
                                /\ tasks[j].kind = "daily"
                                /\ items[n] \in Range(tasks[j].events) }
           IN  \A a \in Q :
                  /\ Cardinality(Bucket(a)) = 1
                  /\ \A j \in Bucket(a) :
                        /\ tasks[j].day = CivilFromDays(TargetDay(items[a].date)).day
                        /\ tasks[j].month = CivilFromDays(TargetDay(items[a].date)).month
                  /\ \A b \in Q :
                        Bucket(a) = Bucket(b)
                        <=> TargetDay(items[a].date) = TargetDay(items[b].date)

\* a call grouped two events of one date of the feed that are on two days of
\* UTC+7, and two events of two dates of the feed that are on one day of UTC+7
C14_Witness ==
    \E c \in Callers :
        /\ outcome[c].result = "scheduled"
        /\ scheduledAlerts # <<>>
        /\ \E a, b \in DOMAIN outcome[c].items :
              /\ Qualifies(outcome[c].items[a]) /\ Qualifies(outcome[c].items[b])
              /\ SourceDay(outcome[c].items[a].date) = SourceDay(outcome[c].items[b].date)
              /\ TargetDay(outcome[c].items[a].date) = SourceDay(outcome[c].items[a].date)
              /\ TargetDay(outcome[c].items[b].date) = SourceDay(outcome[c].items[b].date) + 1
        /\ \E a, b \in DOMAIN outcome[c].items :
              /\ Qualifies(outcome[c].items[a]) /\ Qualifies(outcome[c].items[b])
              /\ SourceDay(outcome[c].items[a].date) # SourceDay(outcome[c].items[b].date)
              /\ TargetDay(outcome[c].items[a].date) = TargetDay(outcome[c].items[b].date)

\* C15: filterHighImpactUSD of the items a call fetched is the sequence of
\* the items whose impact is 'High' and whose country is 'USD', in their
\* order, each as often as it occurs; and the call installs one pre-event
\* handle for each of them
C15_FilterKeepsExactlyHighUSD ==
    \A c \in Callers :
        outcome[c].result \in {"scheduled", "empty"}
        => LET items == outcome[c].items
               Q == { n \in DOMAIN items :
                        items[n].impact = "High" /\ items[n].country = "USD" }
           IN  /\ filterHighImpactUSD(items) = Pick(items, Q)
               /\ (outcome[c].result = "empty") <=> (Q = {})
               /\ /\ outcome[c].result = "scheduled"
                  /\ tasks[scheduledAlerts[1]].run = outcome[c].run
                  => Cardinality({ j \in Range(scheduledAlerts) : tasks[j].kind = "pre" })
                     = Cardinality(Q)

\* a call filtered items in which a qualifying event occurs twice, around an
\* event of the wrong impact and one that differs by case only
C15_Witness ==
    \E c \in Callers :
        /\ outcome[c].result = "scheduled"
        /\ \E i, j \in DOMAIN outcome[c].items :
              /\ i + 1 < j
              /\ outcome[c].items[i] = outcome[c].items[j]
              /\ Qualifies(outcome[c].items[i])
              /\ ~Qualifies(outcome[c].items[i + 1])
        /\ Len(filterHighImpactUSD(outcome[c].items)) = 2

\* runMonthlyScheduler runs in this step
MonthlyRuns ==
    \/ mainPc # "start" /\ cronLast'.monthly # cronLast.monthly
    \/ mainPc # "done" /\ mainPc' = "done"

\* a call of fetchAndScheduleAlerts replaces the alert registry in this step
AlertsReplaced == \E c \in Callers : Ends(c) /\ outcome'[c].result = "scheduled"

\* C16: no handle is in both registries, each registry holds handles of its
\* own kinds only, and a step that replaces one registry leaves the other
\* registry and its handles as they were
C16_RegistriesAreDisjoint ==
    [][/\ Range(scheduledAlerts') \cap Range(activeCronTasks') = {}
       /\ \A i \in Range(scheduledAlerts') : tasks'[i].kind \in {"daily", "pre"}
       /\ \A i \in Range(activeCronTasks') : tasks'[i].kind = "monthly"
       /\ MonthlyRuns /\ ~AlertsReplaced
          => /\ scheduledAlerts' = scheduledAlerts
             /\ \A i \in Range(scheduledAlerts) : tasks'[i] = tasks[i]
       /\ MonthlyRuns /\ AlertsReplaced
          => \A i \in Range(scheduledAlerts') : tasks'[i].status = "scheduled"
       /\ (\E c \in Callers : Ends(c)) /\ ~MonthlyRuns
          => /\ activeCronTasks' = activeCronTasks
             /\ \A i \in Range(activeCronTasks) : tasks'[i] = tasks[i]]_vars

\* the monthly registry was replaced while the alert registry held handles,
\* which are all still started
C16_Witness ==
    /\ monthlyOutcome.result = "registered"
    /\ activeCronTasks # <<>>
    /\ scheduledAlerts # <<>>
    /\ \A i \in Range(scheduledAlerts) :
          tasks[i].status = "scheduled" /\ tasks[i].created < monthlyOutcome.at
    /\ \A i \in Range(activeCronTasks) :
          tasks[i].status = "scheduled" /\ tasks[i].created = monthlyOutcome.at
    /\ Len(tasks) > Len(scheduledAlerts) + Len(activeCronTasks)

\* C17: on the heap of every state, cancelAllAlerts and clearScheduledJobs
\* stop each handle of their registry, empty it and touch nothing else; on an
\* empty registry they change nothing; a second call changes nothing
C17_CancelAllStopsAndEmpties ==
    /\ \E a \in {cancelAllAlerts(Heap)} :
          /\ a.scheduledAlerts = <<>>
          /\ a.activeCronTasks = activeCronTasks
          /\ DOMAIN a.tasks = DOMAIN tasks
          /\ \A i \in DOMAIN tasks :
                a.tasks[i] = IF i \in Range(scheduledAlerts)
                             THEN [tasks[i] EXCEPT !.status = "stopped"]
                             ELSE tasks[i]
          /\ cancelAllAlerts(a) = a
          /\ scheduledAlerts = <<>> => a = Heap
    /\ \E m \in {clearScheduledJobs(Heap)} :
          /\ m.activeCronTasks = <<>>
          /\ m.scheduledAlerts = scheduledAlerts
          /\ DOMAIN m.tasks = DOMAIN tasks
          /\ \A i \in DOMAIN tasks :
                m.tasks[i] = IF i \in Range(activeCronTasks)
                             THEN [tasks[i] EXCEPT !.status = "stopped"]
                             ELSE tasks[i]
          /\ clearScheduledJobs(m) = m
          /\ activeCronTasks = <<>> => m = Heap

\* both registries hold handles again after each has been emptied of started
\* handles by a replace
C17_Witness ==
    /\ scheduledAlerts # <<>>
    /\ activeCronTasks # <<>>
    /\ \E i \in DOMAIN tasks :
          /\ tasks[i].kind = "monthly"
          /\ tasks[i].status = "stopped"
          /\ i \notin Range(activeCronTasks)
    /\ \E i \in DOMAIN tasks :
          /\ tasks[i].kind \in {"daily", "pre"}
          /\ tasks[i].status = "stopped"
          /\ i \notin Range(scheduledAlerts)

\* the generator run to its end: a call that has begun goes on
SpecGenFair == SpecGen /\ WF_vars(GenIterate) /\ WF_vars(GenReturn)

\* C18: the loop of generateMonthlySchedule is left after at most MAX_CYCLES
\* advances, each evaluation of its condition either advancing once or
\* leaving with the slots accumulated, which are what the call returns; every
\* call returns
C18_WalkEndsWithinMaxCycles ==
    /\ [][/\ gen.pc = "loop"
             => /\ gen.cycles <= MAX_CYCLES
                /\ \/ /\ gen'.pc = "loop"
                      /\ gen.cycles < MAX_CYCLES
                      /\ gen'.cycles = gen.cycles + 1
                   \/ /\ gen'.pc = "sort"
                      /\ gen'.cycles = gen.cycles
                      /\ gen'.schedule = gen.schedule
          /\ gen.pc = "sort"
             => /\ gen'.pc = "returned"
                /\ Len(gen'.schedule) = Len(gen.schedule)
                /\ Range(gen'.schedule) = Range(gen.schedule)]_vars
    /\ (gen.pc = "loop") ~> (gen.pc = "returned")

\* a call returned slots of the target month after MAX_CYCLES advances, its
\* walk still in the target month
C18_Witness ==
    /\ gen.pc = "returned"
    /\ gen.cycles = MAX_CYCLES
    /\ gen.schedule # <<>>
    /\ gen.currentDate <= TargetMonthEnd
    /\ gen.currentDate >= TargetMonthStart

\* C19: a call of fetchAndScheduleAlerts whose fetch fails ends in an error
\* its caller sees: main(), which awaits the call, does not go on to the
\* statements after it as it does after a call that completes
C19_FetchFailureReachesCaller ==
    outcome["main"].result = "fetchFailed"
    => mainPc # "done" /\ monthlyOutcome = NoSchedule

\* the instants from first to last that the walk from anchor a visits
WalkBetween(a, first, last) ==
    { x \in { a + 1200 * q + r :
                q \in (IF first > a THEN (first - a) \div 1200 ELSE 0)..((last - a) \div 1200),
                r \in {0, 480, 960} } :
        first <= x /\ x <= last }

\* C20: when the walk has passed the end of the target month, the main slots
\* of the sequence generateMonthlySchedule returns are the instants of the
\* walk from the anchor that lie in the target month, and the sequence is
\* empty when the anchor is after the target month
C20_MainSlotsAreTheWalkInTheMonth ==
    gen.pc = "returned" /\ gen.currentDate > TargetMonthEnd
    => /\ { x \in Range(gen.schedule) : IsMainSlot(x) }
          = WalkBetween(Anchor, TargetMonthStart, TargetMonthEnd)
       /\ \A x \in Range(gen.schedule) : x >= Anchor
       /\ Anchor > TargetMonthEnd => gen.schedule = <<>>

\* a walk that began inside the target month passed its end and left several
\* main slots
C20_Witness ==
    /\ gen.pc = "returned"
    /\ gen.currentDate > TargetMonthEnd
    /\ gen.cycles < MAX_CYCLES
    /\ Anchor > TargetMonthStart
    /\ Anchor < TargetMonthEnd
    /\ Cardinality({ x \in Range(gen.schedule) : IsMainSlot(x) }) >= 3

(***************************************************************************)
(* The week's events just after midnight of UTC+7: on the 1st of September *)
(* and on the 2nd                                                          *)
(***************************************************************************)

FeedOfEves ==
    { [array |-> TRUE, items |-> <<EvPMI, EvNFP, EvISM>>],
      [array |-> TRUE, items |-> <<EvNFP>>] }

FetchReturnsEves(c) == FetchReturnsFrom(c, FeedOfEves)

InitEves ==
    /\ now = BootTime
    /\ hostOffset \in HostOffsets
    /\ config \in Configs
    /\ gen = GenIdle
    /\ InitSystem

NextEves ==
    \/ Main
    \/ WeeklyCron
    \/ \E c \in Callers : FetchThrows(c)
    \/ \E c \in Callers : FetchReturnsEves(c)
    \/ MonthlyCron
    \/ DailyAlert
    \/ PreEventAlert
    \/ MonthlyAlert
    \/ Tick

SpecEves == InitEves /\ [][NextEves]_vars

\* C21: the minute, hour, day and month of every pre-event handle are those of
\* its event's instant less 5 minutes, read in UTC+7, and a pre-event handle
\* that has run its callback ran it 5 minutes before its event
C21_PreEventFieldsAreFiveMinutesBefore ==
    \A i \in DOMAIN tasks :
        tasks[i].kind = "pre"
        => /\ tasks[i].minute = (tasks[i].events[1].date - 5 + 420) % 60
           /\ tasks[i].hour = ((tasks[i].events[1].date - 5 + 420) % 1440) \div 60
           /\ tasks[i].day = CivilFromDays((tasks[i].events[1].date - 5 + 420) \div 1440).day
           /\ tasks[i].month = CivilFromDays((tasks[i].events[1].date - 5 + 420) \div 1440).month
           /\ tasks[i].zone = 420
           /\ tasks[i].fired > 0 => tasks[i].lastFired = tasks[i].events[1].date - 5

\* the handle of an event at 00:02 of the 1st of September is set for the 31st
\* of August and has run at 23:57
C21_Witness ==
    \E i \in DOMAIN tasks :
        /\ tasks[i].kind = "pre"
        /\ PartsOf(tasks[i].events[1].date, 420).day = 1
        /\ PartsOf(tasks[i].events[1].date, 420).month = 9
        /\ PartsOf(tasks[i].events[1].date, 420).hour = 0
        /\ PartsOf(tasks[i].events[1].date, 420).minute < 5
        /\ tasks[i].day = 31
        /\ tasks[i].month = 8
        /\ tasks[i].fired = 1
        /\ tasks[i].lastFired = tasks[i].events[1].date - 5

\* the indices of the qualifying items that the daily handle j carries
CarriedBy(items, j) ==
    { n \in DOMAIN items : Qualifies(items[n]) /\ items[n] \in Range(tasks[j].events) }

\* C22: the buckets the daily handles of a call carry partition the filtered
\* events: no bucket is empty, no event is in two buckets, every event is in
\* one, and a bucket lists its events in the order of the input
C22_BucketsPartitionInOrder ==
    \A c \in Callers :
        /\ outcome[c].result = "scheduled"
        /\ scheduledAlerts # <<>>
        /\ tasks[scheduledAlerts[1]].run = outcome[c].run
        => LET items == outcome[c].items
               daily == { j \in Range(scheduledAlerts) : tasks[j].kind = "daily" }
           IN  /\ \A j \in daily :
                     /\ tasks[j].events # <<>>
                     /\ tasks[j].events = Pick(items, CarriedBy(items, j))
               /\ \A j, k \in daily :
                     j # k => CarriedBy(items, j) \cap CarriedBy(items, k) = {}
               /\ UNION { CarriedBy(items, j) : j \in daily }
                  = { n \in DOMAIN items : Qualifies(items[n]) }

\* a call left two buckets, one of them with two events listed in the order
\* of the input, the later event first
C22_Witness ==
    \E c \in Callers :
        /\ outcome[c].result = "scheduled"
        /\ \E j, k \in Range(scheduledAlerts) :
              /\ j # k
              /\ tasks[j].kind = "daily"
              /\ tasks[k].kind = "daily"
              /\ Len(tasks[j].events) = 2
              /\ tasks[j].events[1].date > tasks[j].events[2].date

\* C23: when two calls of fetchAndScheduleAlerts were in flight together and
\* both installed handles, c ending while d was in flight, the alert registry
\* holds the handles of d, all of them, and every handle of c is stopped
C23_LastFetchToCompleteWins ==
    \A c \in Callers : \A d \in Callers \ {c} :
        /\ outcome[c].result = "scheduled"
        /\ outcome[c].concurrent = {d}
        /\ runs[d].pc = "idle"
        /\ outcome[d].result = "scheduled"
        /\ outcome[d].run # 0
        => /\ Range(scheduledAlerts) = { i \in DOMAIN tasks : tasks[i].run = outcome[d].run }
           /\ Len(scheduledAlerts) = HandlesFor(outcome[d].items)
           /\ \A i \in Range(scheduledAlerts) : tasks[i].status = "scheduled"
           /\ \A i \in DOMAIN tasks :
                 tasks[i].run = outcome[c].run => tasks[i].status = "stopped"

\* the call started first ended last, after the overlapping call started at
\* the weekly cron, and the registry holds its handles
C23_Witness ==
    /\ outcome["weekly"].result = "scheduled"
    /\ outcome["weekly"].concurrent = {"main"}
    /\ outcome["main"].result = "scheduled"
    /\ outcome["main"].run < outcome["weekly"].run
    /\ scheduledAlerts # <<>>
    /\ \A i \in Range(scheduledAlerts) : tasks[i].run = outcome["main"].run
    /\ outcome["main"].items # outcome["weekly"].items

\* C24: a run of runMonthlyScheduler whose audit-log step failed, at the
\* creation of the logs directory or at the writing of the file, has
\* registered the slots it generated
C24_AuditFailureStillRegisters ==
    monthlyOutcome.audit \in {"mkdirFails", "writeFails"}
    => /\ monthlyOutcome.result = "registered"
       /\ \A k \in DOMAIN monthlyOutcome.schedule :
             monthlyOutcome.schedule[k] - 3 > monthlyOutcome.at
             => \E i \in Range(activeCronTasks) :
                   tasks[i].slot = monthlyOutcome.schedule[k]

\* C25: a run of runMonthlyScheduler whose generation throws leaves the
\* monthly registry and its handles as they were and adds no handle, main()
\* going on; and the end of main()'s call of fetchAndScheduleAlerts, however
\* it ended, is followed at once by a run of runMonthlyScheduler
C25_GenerationFailureAndStartupOrder ==
    [][/\ MonthlyRuns /\ ~config.startTime.valid
          => /\ monthlyOutcome'.result = "error"
             /\ monthlyOutcome'.at = now
             /\ activeCronTasks' = activeCronTasks
             /\ \A i \in Range(activeCronTasks) : tasks'[i] = tasks[i]
             /\ \A i \in DOMAIN tasks' : tasks'[i].kind = "monthly" => i \in DOMAIN tasks
       /\ Ends("main")
          => /\ mainPc' = "done"
             /\ monthlyOutcome'.result \in {"registered", "error"}
             /\ monthlyOutcome'.at = now
             /\ monthlyOutcome.result = "none"
       /\ monthlyOutcome'.result # "none" /\ monthlyOutcome.result = "none"
          => Ends("main")]_vars

\* main()'s fetch failed, main() went on to runMonthlyScheduler, whose
\* generation threw, and the weekly call has since installed handles
C25_Witness ==
    /\ outcome["main"].result = "fetchFailed"
    /\ mainPc = "done"
    /\ ~config.startTime.valid
    /\ monthlyOutcome.result = "error"
    /\ activeCronTasks = <<>>
    /\ scheduledAlerts # <<>>
    /\ \A i \in Range(scheduledAlerts) : tasks[i].status = "scheduled"

=============================================================================
